---- MODULE Spec2Model ----
(***************************************************************************)
(* Model of logo/create_pysal_logo.py: the two entry points create_logo    *)
(* and create_favicon as a sequential program over a working directory.     *)
(*                                                                          *)
(* Strings are sequences of tokens (a token is a run of characters that    *)
(* the program never splits), so that "%s.tex" % fname is a concatenation, *)
(* str.startswith is a prefix test and a file name has a last extension.   *)
(* A path is relative to the working directory; it lies directly in the    *)
(* working directory iff it holds no "/" token.                            *)
(*                                                                          *)
(* The external tools are modelled by what the code relies on: the TeX     *)
(* engine (with the standalone "convert" option) leaves .aux/.log/.pdf     *)
(* (and .png) next to the source, BSD find (the code states it targets     *)
(* OSX) deletes the regular files of depth 1 that match, ImageMagick       *)
(* convert writes its output file when its input exists and its geometry   *)
(* is well formed.                                                         *)
(***************************************************************************)
EXTENDS Integers, Sequences, FiniteSets, TLC

VARIABLES entry, args, env, pc, largs, ffname, fcontent, fs, writes, calls, err

vars == <<entry, args, env, pc, largs, ffname, fcontent, fs, writes, calls, err>>

(***************************************************************************)
(* Bounds and program constants                                            *)
(***************************************************************************)
\* longest node_info the model passes in
MaxNodes == 8

\* predefined.CHILD_NODES; the error message and the docstring fix it at 7
CHILD_NODES == 7

\* predefined.GRANDCHILD_NODES, kept symbolic (only passed through)
GRANDCHILD_NODES == "GRANDCHILD_NODES"

DefaultConceptText == "PySAL"
DefaultEngine == "lualatex"
DefaultConvertTikz == ",convert={outfile=\\jobname.png}"
DefaultCleanUp == <<"aux", "log", "pdf">>
DefaultFont == "M+ 1mn"

\* Python's None for a string argument
None == "None"

(***************************************************************************)
(* String helpers                                                          *)
(***************************************************************************)
Range(s) == {s[i] : i \in 1..Len(s)}

\* str.startswith
StartsWith(s, p) == Len(p) <= Len(s) /\ SubSeq(s, 1, Len(p)) = p

\* a path directly in the working directory (find -maxdepth 1, os.listdir)
InCwd(path) == "/" \notin Range(path)

\* bool(x) of a str or list
Truthy(s) == s # <<>>

\* "%s.<ext>" % fname
WithExt(fname, ext) == fname \o <<".", ext>>

(***************************************************************************)
(* Template assembly (create_logo, lines 147-184).  The functions of       *)
(* build_tex_file are kept as constructors of their arguments: a piece of  *)
(* text is the record of the call that produced it.                        *)
(***************************************************************************)
set_header(font, convert_tikz, defined_colors, color_format) ==
    [kind |-> "header", font |-> font, convert |-> convert_tikz,
     colors |-> defined_colors, format |-> color_format]

set_footer == [kind |-> "footer"]

initialize_tikz(background, concept, text) ==
    [kind |-> "preamble", background |-> background, concept |-> concept,
     text |-> text, children |-> CHILD_NODES, grandchildren |-> GRANDCHILD_NODES]

create_concept(color, text, style, size) ==
    [kind |-> "root", color |-> color, text |-> text, style |-> style, size |-> size]

create_child(color, grandchildren, text) ==
    [kind |-> "child", color |-> color, grandchildren |-> grandchildren, text |-> text]

finalize_tikz == [kind |-> "finalize"]

\* the theme colours, each a pair <<color name, color code>>
background_color == <<"background", "0, 0, 0">>
concept_color == <<"concept", "1, 1, 1">>
text_color == <<"textcolor", "2, 2, 2">>

\* lines 147-151: the colours present, node colours first
DefinedColors(node_info) ==
    [i \in 1..Len(node_info) |-> node_info[i][1]]
        \o <<background_color, concept_color, text_color>>

\* variant of Children that walks the rows from the last to the first
ChildrenReversed(node_info) ==
    [i \in 1..Len(node_info) |->
        create_child(node_info[Len(node_info) + 1 - i][1][1], GRANDCHILD_NODES,
                     node_info[Len(node_info) + 1 - i][2])]

\* lines 177-178: for color, text in node_info: tex_content += create_child(...)
Children(node_info) ==
    [i \in 1..Len(node_info) |->
        create_child(node_info[i][1][1], GRANDCHILD_NODES, node_info[i][2])]

\* lines 153-184: fcontent = tex_header + tex_content + tex_footer
TexContent(a) ==
    <<set_header(DefaultFont, a.convert_tikz, DefinedColors(a.node_info), "RGB")>>
        \o <<initialize_tikz(background_color[1], concept_color[1], text_color[1])>>
        \o <<create_concept(concept_color[1], a.concept_text, "bfseries", "large")>>
        \o Children(a.node_info)
        \o <<finalize_tikz>>
        \o <<set_footer>>

(***************************************************************************)
(* Decisions of create_logo                                                *)
(***************************************************************************)
\* variant of CountMismatch that only rejects too few rows
CountMismatchBelow(node_info) == Len(node_info) < CHILD_NODES

\* line 143: if len(node_info) != CHILD_NODES
CountMismatch(node_info) == Len(node_info) # CHILD_NODES

\* lines 144-145: RuntimeError(err_msg % len(node_info))
CountError(node_info) ==
    [type |-> "RuntimeError",
     fmt |-> "There must be 7 elements in the logo, %s were passed in.",
     arg |-> Len(node_info)]

NoErr == [type |-> "None", fmt |-> "", arg |-> 0]

\* a call that could not be started or a failed os.rename
NotFound == [type |-> "FileNotFoundError", fmt |-> "", arg |-> 0]

\* lines 193-196: the shell-escape flag
ShellEscape(convert_tikz) ==
    IF convert_tikz # "" THEN "--shell-escape" ELSE convert_tikz

\* variant of EngineRaises that also raises on a non-zero exit status
EngineRaisesChecked(outcome) == outcome # "ok"

\* line 197: Popen(...).wait() raises only when the process cannot start;
\* the value wait() returns is dropped
EngineRaises(outcome) == outcome = "missing"

\* the files the engine leaves in the working directory
EngineOutput(fname, convert_tikz, outcome) ==
    IF outcome = "ok"
    THEN {WithExt(fname, "aux"), WithExt(fname, "log"), WithExt(fname, "pdf")}
            \cup (IF convert_tikz # "" THEN {WithExt(fname, "png")} ELSE {})
    ELSE {WithExt(fname, "aux"), WithExt(fname, "log")}

\* variant of CleanupRegex that only knows the first extension of the list
CleanupRegexFirstOnly(name, clean_up) ==
    /\ Len(name) >= 2
    /\ name[Len(name) - 1] = "."
    /\ name[Len(name)] = clean_up[1]

\* lines 201-202: find -E . -type f -maxdepth 1 -regex ".*\.(e1|e2|...)"
\* the regex has to match the whole path ./name
CleanupRegex(name, clean_up) ==
    /\ Len(name) >= 2
    /\ name[Len(name) - 1] = "."
    /\ name[Len(name)] \in Range(clean_up)

\* lines 200-203: what the find call deletes
CleanupDeleted(files, clean_up) ==
    {f \in files : InCwd(f) /\ CleanupRegex(f, clean_up)}

\* line 208 / 311: [f for f in os.listdir(currdir) if f.startswith(fname)]
Listed(files, fname) == {f \in files : InCwd(f) /\ StartsWith(f, fname)}

\* line 209 / 312: "%s/%s%s" % (currdir, move_to, f), relative to currdir
Target(move_to, f) == move_to \o f

\* the directory part of move_to has to exist for os.rename to succeed
RenameFails(move_to, destExists) == "/" \in Range(move_to) /\ ~destExists

\* lines 206-209 / 309-312: the files after the renames
Relocated(files, fname, move_to) ==
    (files \ Listed(files, fname))
        \cup {Target(move_to, f) : f \in Listed(files, fname)}

(***************************************************************************)
(* Decisions of create_favicon                                             *)
(***************************************************************************)
\* lines 263-264: fname = "%s_%s" % (fname, "favicon")
FaviconName(fname) == fname \o <<"_", "favicon">>

\* line 273: concept_text=concept_text
FaviconConceptText(concept_text) == concept_text

\* variant of FaviconLogoCleanUp that hands the flag on to create_logo
FaviconLogoCleanUpForwarded(clean_up) == IF clean_up THEN DefaultCleanUp ELSE <<>>

\* lines 267-276: clean_up is not among the arguments of the call, so
\* create_logo runs with its default list (line 67)
FaviconLogoCleanUp(clean_up) == DefaultCleanUp

RECURSIVE JoinComma(_)
JoinComma(vals) ==
    IF Len(vals) = 0 THEN <<>>
    ELSE IF Len(vals) = 1 THEN <<vals[1]>>
    ELSE <<vals[1], ", ">> \o JoinComma(Tail(vals))

\* "%s" % resolution: an int prints as its digits, a list as "[a, b]"
FormatResolution(resolution) ==
    IF resolution.isList
    THEN <<"[">> \o JoinComma(resolution.vals) \o <<"]">>
    ELSE <<resolution.vals[1]>>

\* lines 288, 290: "%sx%s" % (resolution, resolution)
Geometry(resolution) ==
    FormatResolution(resolution) \o <<"x">> \o FormatResolution(resolution)

\* line 297: "%s_%s.ico" % (fname, resolution)
IconName(fname, resolution) ==
    fname \o <<"_">> \o FormatResolution(resolution) \o <<".", "ico">>

\* convert accepts a geometry of the form <digits>x<digits>
GeometryValid(resolution) == ~resolution.isList

\* lines 279-299: the call writes its last argument when it can read its
\* first one, the geometry parses and the tool itself succeeds
ConvertOutput(files, fname, resolution, outcome) ==
    IF outcome = "ok" /\ WithExt(fname, "png") \in files /\ GeometryValid(resolution)
    THEN {IconName(fname, resolution)}
    ELSE {}

\* variant of FaviconGlob with the pattern "<fname>*"
FaviconGlobPrefix(name, fname) == StartsWith(name, fname)

\* lines 304-305: find . -type f -maxdepth 1 -name "<fname>.*"
FaviconGlob(name, fname) == StartsWith(name, fname \o <<".">>)

\* lines 303-306: what the find call deletes
FaviconDeleted(files, fname) == {f \in files : InCwd(f) /\ FaviconGlob(f, fname)}

(***************************************************************************)
(* Inputs                                                                  *)
(***************************************************************************)
\* one row of node_info: <<<<color name, color code>>, node text>>
Node(i) == << << <<"color", i>>, <<"rgb", i>> >>, <<"text", i>> >>

\* node_info of n rows, in ascending or descending order of the rows' ids
NodeSeq(n, order) ==
    [i \in 1..n |-> IF order = "asc" THEN Node(i) ELSE Node(n + 1 - i)]

NodeInfos ==
    {NodeSeq(n, o) : n \in {0} \cup ((CHILD_NODES - 1)..MaxNodes), o \in {"asc", "desc"}}

FNames == { <<"p">>, <<"p", "q">> }

MoveTos == { <<>>, <<"out">>, <<"out", "/">> }

CleanUps == { DefaultCleanUp, <<>>, <<"tex", "aux", "log", "pdf">>, <<"txt">> }

Resolutions ==
    { [isList |-> FALSE, vals |-> <<"32">>],
      [isList |-> FALSE, vals |-> <<"16">>],
      [isList |-> TRUE, vals |-> <<"16", "32">>] }

\* files that may lie in the working directory beforehand
PreFiles ==
    { <<"z", ".", "pdf">>, <<"z", ".", "txt">>, <<"p", "q", ".", "tex">>,
      <<"p", "_", "favicon", "_", "16", ".", "ico">> }

EngineOutcomes == {"ok", "fail", "missing"}
ConvertOutcomes == {"ok", "fail"}

NoArgs ==
    [fname |-> <<>>, node_info |-> <<>>, move_to |-> <<>>, concept_text |-> None,
     convert_tikz |-> "", clean_up |-> <<>>]

(***************************************************************************)
(* Initial states: a call of create_logo or of create_favicon              *)
(***************************************************************************)
InitLogo ==
    \E f \in FNames, n \in NodeInfos, m \in MoveTos, c \in CleanUps,
       t \in {DefaultConceptText, ""}, k \in {DefaultConvertTikz, ""} :
        /\ entry = "logo"
        /\ args = [fname |-> f, node_info |-> n, move_to |-> m, concept_text |-> t,
                   convert_tikz |-> k, clean_up |-> c,
                   resolution |-> [isList |-> FALSE, vals |-> <<"32">>],
                   clean_up_flag |-> TRUE]
        /\ largs = [fname |-> f, node_info |-> n, move_to |-> m, concept_text |-> t,
                    convert_tikz |-> k, clean_up |-> c]
        /\ pc = "validate"

InitFavicon ==
    \E f \in FNames, n \in NodeInfos, m \in MoveTos, c \in BOOLEAN,
       t \in {None, "", DefaultConceptText}, r \in Resolutions :
        /\ entry = "favicon"
        /\ args = [fname |-> f, node_info |-> n, move_to |-> m, concept_text |-> t,
                   convert_tikz |-> DefaultConvertTikz, clean_up |-> DefaultCleanUp,
                   resolution |-> r, clean_up_flag |-> c]
        /\ largs = NoArgs
        /\ pc = "favicon"

Init ==
    /\ InitLogo \/ InitFavicon
    /\ \E e \in EngineOutcomes, d \in BOOLEAN, files \in SUBSET PreFiles,
          c \in (IF entry = "favicon" THEN ConvertOutcomes ELSE {"ok"}) :
            /\ env = [engine |-> e, convert |-> c, destExists |-> d, files |-> files]
            /\ fs = files
    /\ ffname = <<>>
    /\ fcontent = <<>>
    /\ writes = <<>>
    /\ calls = <<>>
    /\ err = NoErr

(***************************************************************************)
(* create_favicon, before the base render                                  *)
(***************************************************************************)
\* lines 262-276: derive the name and call create_logo
FaviconCall ==
    /\ pc = "favicon"
    /\ ffname' = FaviconName(args.fname)
    /\ largs' = [fname |-> FaviconName(args.fname),
                 node_info |-> args.node_info,
                 move_to |-> args.move_to,
                 concept_text |-> FaviconConceptText(args.concept_text),
                 convert_tikz |-> DefaultConvertTikz,
                 clean_up |-> FaviconLogoCleanUp(args.clean_up_flag)]
    /\ pc' = "validate"
    /\ UNCHANGED <<entry, args, env, fcontent, fs, writes, calls, err>>

(***************************************************************************)
(* create_logo                                                             *)
(***************************************************************************)
\* lines 143-145
Validate ==
    /\ pc = "validate"
    /\ IF CountMismatch(largs.node_info)
       THEN /\ err' = CountError(largs.node_info)
            /\ pc' = "raised"
       ELSE /\ err' = err
            /\ pc' = "build"
    /\ UNCHANGED <<entry, args, env, largs, ffname, fcontent, fs, writes, calls>>

\* lines 147-184
Build ==
    /\ pc = "build"
    /\ fcontent' = TexContent(largs)
    /\ pc' = "write"
    /\ UNCHANGED <<entry, args, env, largs, ffname, fs, writes, calls, err>>

\* lines 186-188
WriteTex ==
    /\ pc = "write"
    /\ fs' = fs \cup {WithExt(largs.fname, "tex")}
    /\ writes' = Append(writes, [path |-> WithExt(largs.fname, "tex"),
                                 content |-> fcontent])
    /\ pc' = "engine"
    /\ UNCHANGED <<entry, args, env, largs, ffname, fcontent, calls, err>>

\* lines 193-197
RunEngine ==
    /\ pc = "engine"
    /\ IF EngineRaises(env.engine)
       THEN /\ err' = NotFound
            /\ pc' = "raised"
            /\ UNCHANGED <<fs, calls>>
       ELSE /\ calls' = Append(calls,
                    [tool |-> DefaultEngine,
                     argv |-> <<<<ShellEscape(largs.convert_tikz)>>,
                                WithExt(largs.fname, "tex")>>])
            /\ fs' = fs \cup EngineOutput(largs.fname, largs.convert_tikz, env.engine)
            /\ pc' = "cleanup"
            /\ err' = err
    /\ UNCHANGED <<entry, args, env, largs, ffname, fcontent, writes>>

\* lines 199-203
CleanUp ==
    /\ pc = "cleanup"
    /\ IF Truthy(largs.clean_up)
       THEN /\ calls' = Append(calls, [tool |-> "find", argv |-> <<largs.clean_up>>])
            /\ fs' = fs \ CleanupDeleted(fs, largs.clean_up)
       ELSE UNCHANGED <<fs, calls>>
    /\ pc' = "move"
    /\ UNCHANGED <<entry, args, env, largs, ffname, fcontent, writes, err>>

\* lines 205-209, then the return to the caller
Move ==
    /\ pc = "move"
    /\ IF Truthy(largs.move_to) /\ Listed(fs, largs.fname) # {}
            /\ RenameFails(largs.move_to, env.destExists)
       THEN /\ err' = NotFound
            /\ pc' = "raised"
            /\ fs' = fs
       ELSE /\ fs' = IF Truthy(largs.move_to)
                     THEN Relocated(fs, largs.fname, largs.move_to)
                     ELSE fs
            /\ pc' = IF entry = "logo" THEN "done" ELSE "convert"
            /\ err' = err
    /\ UNCHANGED <<entry, args, env, largs, ffname, fcontent, writes, calls>>

(***************************************************************************)
(* create_favicon, after the base render                                   *)
(***************************************************************************)
\* lines 278-299
Convert ==
    /\ pc = "convert"
    /\ calls' = Append(calls,
            [tool |-> "convert",
             argv |-> <<WithExt(ffname, "png"), Geometry(args.resolution),
                        IconName(ffname, args.resolution)>>])
    /\ fs' = fs \cup ConvertOutput(fs, ffname, args.resolution, env.convert)
    /\ pc' = "favicon_cleanup"
    /\ UNCHANGED <<entry, args, env, largs, ffname, fcontent, writes, err>>

\* lines 301-306
FaviconCleanUp ==
    /\ pc = "favicon_cleanup"
    /\ IF args.clean_up_flag
       THEN /\ calls' = Append(calls, [tool |-> "find", argv |-> <<ffname \o <<".", "*">> >>])
            /\ fs' = fs \ FaviconDeleted(fs, ffname)
       ELSE UNCHANGED <<fs, calls>>
    /\ pc' = "favicon_move"
    /\ UNCHANGED <<entry, args, env, largs, ffname, fcontent, writes, err>>

\* lines 308-312
FaviconMove ==
    /\ pc = "favicon_move"
    /\ IF Truthy(args.move_to) /\ Listed(fs, ffname) # {}
            /\ RenameFails(args.move_to, env.destExists)
       THEN /\ err' = NotFound
            /\ pc' = "raised"
            /\ fs' = fs
       ELSE /\ fs' = IF Truthy(args.move_to)
                     THEN Relocated(fs, ffname, args.move_to)
                     ELSE fs
            /\ pc' = "done"
            /\ err' = err
    /\ UNCHANGED <<entry, args, env, largs, ffname, fcontent, writes, calls>>

Next ==
    \/ FaviconCall
    \/ Validate
    \/ Build
    \/ WriteTex
    \/ RunEngine
    \/ CleanUp
    \/ Move
    \/ Convert
    \/ FaviconCleanUp
    \/ FaviconMove

Spec == Init /\ [][Next]_vars

(***************************************************************************)
(* Vocabulary of the properties                                            *)
(***************************************************************************)
\* the extension of a file name: what follows its last dot
HasExtIn(name, exts) ==
    \E i \in 1..Len(name) :
        /\ i = Len(name) - 1
        /\ name[i] = "."
        /\ \E e \in exts : name[i + 1] = e

\* the files lying directly in the working directory
Cwd(files) == {f \in files : InCwd(f)}

\* the path of the file named f inside the directory move_to names
InDest(move_to, f) ==
    (IF move_to[Len(move_to)] = "/" THEN move_to ELSE move_to \o <<"/">>) \o f

NodeCountOk == Len(args.node_info) = 7

\* create_logo has returned to its caller
LogoReturned ==
    \/ entry = "logo" /\ pc = "done"
    \/ entry = "favicon" /\ pc \in {"convert", "favicon_cleanup", "favicon_move", "done"}

\* the cleanup step of create_logo is being taken
CleanupStep == pc = "cleanup" /\ pc' = "move"

(***************************************************************************)
(* C1                                                                      *)
(***************************************************************************)
\* C1 (as stated): the cleanup step of create_logo deletes exactly the files
\* whose name starts with the base name and whose extension is in the list;
\* files with another extension or another base name stay.
C1_AsStated ==
    [][CleanupStep =>
        /\ fs' \subseteq fs
        /\ fs \ fs' = {f \in Cwd(fs) : /\ StartsWith(f, largs.fname)
                                       /\ HasExtIn(f, Range(largs.clean_up))}]_vars

\* C1 (amended): the cleanup step of create_logo deletes exactly the files
\* directly in the working directory whose extension is in the list, whatever
\* their base name; every file with another extension stays, and nothing
\* is created.
C1_CleanupByExtension ==
    [][CleanupStep =>
        /\ fs' \subseteq fs
        /\ fs \ fs' = {f \in Cwd(fs) : HasExtIn(f, Range(largs.clean_up))}]_vars

\* the cleanup has deleted a file of another base name and kept the others
C1_Witness ==
    /\ pc = "move"
    /\ largs.fname = <<"p">>
    /\ largs.clean_up = <<"aux", "log", "pdf">>
    /\ {<<"z", ".", "pdf">>, <<"z", ".", "txt">>} \subseteq env.files
    /\ <<"z", ".", "pdf">> \notin fs
    /\ <<"p", ".", "aux">> \notin fs
    /\ <<"z", ".", "txt">> \in fs
    /\ <<"p", ".", "tex">> \in fs

(***************************************************************************)
(* C2                                                                      *)
(***************************************************************************)
\* C2: the relocate step of create_logo and of create_favicon, given a
\* non-empty move_to, moves every file of the working directory whose name
\* starts with the base name into the directory move_to under its own name,
\* and moves no other file.
C2_Relocate ==
    [][/\ (pc = "move" /\ pc' # "raised" /\ Truthy(largs.move_to)) =>
            /\ \A f \in Listed(fs, largs.fname) :
                    f \notin fs' /\ InDest(largs.move_to, f) \in fs'
            /\ \A f \in fs \ Listed(fs, largs.fname) : f \in fs'
       /\ (pc = "favicon_move" /\ pc' # "raised" /\ Truthy(args.move_to)) =>
            /\ \A f \in Listed(fs, ffname) :
                    f \notin fs' /\ InDest(args.move_to, f) \in fs'
            /\ \A f \in fs \ Listed(fs, ffname) : f \in fs']_vars

(***************************************************************************)
(* C3                                                                      *)
(***************************************************************************)
C3_Case ==
    /\ entry = "favicon"
    /\ pc = "done"
    /\ args.resolution = [isList |-> FALSE, vals |-> <<"32">>]
    /\ args.clean_up_flag
    /\ args.move_to = <<>>
    /\ env.engine = "ok"
    /\ env.convert = "ok"
    /\ \A f \in env.files : ~StartsWith(f, args.fname \o <<"_", "favicon">>)

\* C3: after create_favicon(base, resolution=32, clean_up=True) with the tools
\* succeeding and no file of the derived prefix beforehand, the only file
\* whose name starts with <base>_favicon is <base>_favicon_32.ico; the .tex,
\* .aux, .log, .pdf and .png of the derived name are gone.
C3_OnlyIconRemains ==
    C3_Case =>
        /\ {f \in fs : StartsWith(f, args.fname \o <<"_", "favicon">>)}
                = {args.fname \o <<"_", "favicon", "_", "32", ".", "ico">>}
        /\ \A e \in {"tex", "aux", "log", "pdf", "png"} :
                args.fname \o <<"_", "favicon", ".", e>> \notin fs

C3_Witness ==
    /\ C3_Case
    /\ Len(writes) = 1
    /\ Len(calls) = 4
    /\ <<"z", ".", "txt">> \in fs

(***************************************************************************)
(* C4                                                                      *)
(***************************************************************************)
\* C4: with a node_info of any length other than 7, create_logo (also when
\* create_favicon calls it) raises a RuntimeError whose message carries the
\* length passed in, and up to then no file has been written, no process
\* started and no file deleted or moved.
C4_CountError ==
    ~NodeCountOk =>
        /\ pc \in {"favicon", "validate", "raised"}
        /\ fs = env.files
        /\ writes = <<>>
        /\ calls = <<>>
        /\ pc = "raised" =>
            /\ err.type = "RuntimeError"
            /\ err.fmt = "There must be 7 elements in the logo, %s were passed in."
            /\ err.arg = Len(args.node_info)

C4_Witness ==
    /\ entry = "favicon"
    /\ Len(args.node_info) = 8
    /\ env.files # {}
    /\ pc = "raised"
    /\ err.arg = 8

(***************************************************************************)
(* C5                                                                      *)
(***************************************************************************)
\* C5: whatever concept_text create_favicon is given, the concept_text that
\* create_logo receives from it is the empty string.
C5_EmptyLabel ==
    (entry = "favicon" /\ pc # "favicon") => largs.concept_text = ""

(***************************************************************************)
(* C6                                                                      *)
(***************************************************************************)
\* C6: once the resize step of create_favicon has run (tools succeeding, no
\* relocation asked for), there is a file <base>_favicon_<r>.ico for every
\* requested resolution r, and the step has produced no other file.
C6_IconPerResolution ==
    (/\ entry = "favicon"
     /\ pc = "favicon_cleanup"
     /\ args.move_to = <<>>
     /\ env.engine = "ok"
     /\ env.convert = "ok") =>
        /\ \A r \in Range(args.resolution.vals) :
                args.fname \o <<"_", "favicon", "_", r, ".", "ico">> \in fs
        /\ \A f \in fs :
                \/ f \in env.files
                \/ \E e \in {"tex", "png"} : f = args.fname \o <<"_", "favicon", ".", e>>
                \/ \E r \in Range(args.resolution.vals) :
                        f = args.fname \o <<"_", "favicon", "_", r, ".", "ico">>

(***************************************************************************)
(* C7                                                                      *)
(***************************************************************************)
\* C7: for a node_info of 7 rows, the text written to <fname>.tex is, in this
\* order, the header, the preamble, one root node carrying concept_text, the
\* 7 children in the order of the rows, each with its row's color name and
\* text, and the closing (the end of the picture, then the footer).
C7_TexLayout ==
    \A k \in 1..Len(writes) :
        LET text == writes[k].content
            rows == largs.node_info
        IN  /\ writes[k].path = largs.fname \o <<".", "tex">>
            /\ Len(rows) = 7
            /\ Len(text) = 12
            /\ text[1].kind = "header"
            /\ text[2].kind = "preamble"
            /\ text[3].kind = "root"
            /\ text[3].text = largs.concept_text
            /\ \A i \in 1..7 :
                    /\ text[3 + i].kind = "child"
                    /\ text[3 + i].color = rows[i][1][1]
                    /\ text[3 + i].text = rows[i][2]
            /\ text[11].kind = "finalize"
            /\ text[12].kind = "footer"

C7_Witness ==
    /\ Len(writes) = 1
    /\ args.node_info[1] # args.node_info[7]
    /\ writes[1].content[4].text = <<"text", 7>>
    /\ writes[1].content[10].text = <<"text", 1>>

(***************************************************************************)
(* C8                                                                      *)
(***************************************************************************)
\* os.rename cannot reach the directory move_to names
C8_RenameFailed ==
    /\ Truthy(args.move_to)
    /\ "/" \in Range(args.move_to)
    /\ ~env.destExists

\* C8: the engine's exit status is not looked at.  When the engine ran and
\* failed, create_logo has still started it, then cleaned up and relocated,
\* and returns without an error; an error leaves create_logo (valid node
\* count) only when the engine could not be started or os.rename failed.
C8_ExitStatusIgnored ==
    NodeCountOk =>
        /\ pc = "raised" =>
            /\ err.type = "FileNotFoundError"
            /\ env.engine = "missing" \/ C8_RenameFailed
        /\ (env.engine = "fail" /\ LogoReturned) =>
            /\ err = NoErr
            /\ calls[1].tool = "lualatex"
            /\ Truthy(largs.clean_up) => calls[2].tool = "find"
        /\ (env.engine = "fail" /\ entry = "logo" /\ pc = "done") =>
            /\ Len(calls) = IF Truthy(args.clean_up) THEN 2 ELSE 1
            /\ \A f \in Cwd(fs) : ~HasExtIn(f, Range(args.clean_up))
            /\ Truthy(args.move_to) => \A f \in Cwd(fs) : ~StartsWith(f, args.fname)

C8_Witness ==
    /\ entry = "logo"
    /\ pc = "done"
    /\ env.engine = "fail"
    /\ args.move_to = <<"out", "/">>
    /\ args.clean_up = <<"aux", "log", "pdf">>
    /\ <<"out", "/", "p", ".", "tex">> \in fs

(***************************************************************************)
(* C9                                                                      *)
(***************************************************************************)
\* C9: in create_favicon with a destination, when the resize tool is started
\* its input <base>_favicon.png lies in the working directory, and at the end
\* the icon <base>_favicon_<resolution>.ico lies in the destination while
\* neither <base>_favicon.tex nor <base>_favicon.png has been moved there.
C9_ResizeBeforeRelocate ==
    (/\ entry = "favicon"
     /\ Truthy(args.move_to)
     /\ env.destExists
     /\ args.clean_up_flag
     /\ ~args.resolution.isList
     /\ env.engine = "ok"
     /\ env.convert = "ok") =>
        /\ pc = "convert" => args.fname \o <<"_", "favicon", ".", "png">> \in fs
        /\ pc = "done" =>
            /\ InDest(args.move_to,
                      args.fname \o <<"_", "favicon", "_", args.resolution.vals[1],
                                      ".", "ico">>) \in fs
            /\ \A e \in {"tex", "png"} :
                    InDest(args.move_to, args.fname \o <<"_", "favicon", ".", e>>)
                        \notin fs

(***************************************************************************)
(* C10                                                                     *)
(***************************************************************************)
\* C10: create_favicon's clean_up flag is not handed to create_logo, which
\* always cleans up with aux, log and pdf.  So at the end no file with one of
\* these extensions is left in the working directory, also with
\* clean_up=False, where (without relocation) <base>_favicon.tex and
\* <base>_favicon.png are kept.
C10_FlagNotForwarded ==
    entry = "favicon" =>
        /\ pc # "favicon" => largs.clean_up = <<"aux", "log", "pdf">>
        /\ pc = "done" => \A f \in Cwd(fs) : ~HasExtIn(f, {"aux", "log", "pdf"})
        /\ (pc = "done" /\ ~args.clean_up_flag /\ args.move_to = <<>>) =>
            /\ args.fname \o <<"_", "favicon", ".", "tex">> \in fs
            /\ env.engine = "ok" => args.fname \o <<"_", "favicon", ".", "png">> \in fs

C10_Witness ==
    /\ entry = "favicon"
    /\ pc = "done"
    /\ ~args.clean_up_flag
    /\ args.move_to = <<>>
    /\ env.engine = "ok"
    /\ <<"z", ".", "pdf">> \in env.files
    /\ <<"z", ".", "pdf">> \notin fs
    /\ args.fname \o <<"_", "favicon", ".", "png">> \in fs

====
